---- MODULE Spec2Model ----
(***************************************************************************)
(* Model of digest.py (matic-digest): the title deduplicator, the          *)
(* per-industry quota-bounded classification loop, the named-account loop  *)
(* and the assembly of the digest, as executed by main().                  *)
(***************************************************************************)
EXTENDS Integers, Sequences, FiniteSets, TLC

(***************************************************************************)
(* Bounds of the model.                                                    *)
(***************************************************************************)
\* longest candidate list handed to the deduplicator in SpecDedup
MaxDedupLen == 4
\* largest value of config["articles_per_industry"]
MaxTarget == 3
\* characters per section block in the model; the source has 2900
BlockSize == 4
\* longest reply of the model to the briefing prompt
MaxReplyLen == 7
\* longest answer of the news API in SpecFetch
MaxNews == 3
\* longest briefing text in SpecSplit
MaxBriefingLen == 7

(***************************************************************************)
(* Text utilities.  A Python str is a sequence of one-character strings.   *)
(***************************************************************************)
UpperCase == <<"A","B","C","D","E","F","G","H","I","J","K","L","M",
               "N","O","P","Q","R","S","T","U","V","W","X","Y","Z">>
LowerCase == <<"a","b","c","d","e","f","g","h","i","j","k","l","m",
               "n","o","p","q","r","s","t","u","v","w","x","y","z">>
Digits == {"0","1","2","3","4","5","6","7","8","9"}

Range(s) == {s[i] : i \in DOMAIN s}

\* str.isspace() of one character
isspace(c) == c \in {" ", "\t", "\n"}

\* str.isalnum() of one character
isalnum(c) == c \in Range(UpperCase) \cup Range(LowerCase) \cup Digits

\* str.lower() of one character
lower_char(c) ==
  IF c \in Range(UpperCase)
  THEN LowerCase[CHOOSE i \in DOMAIN UpperCase : UpperCase[i] = c]
  ELSE c

\* str.lower()
lower(s) == [i \in 1..Len(s) |-> lower_char(s[i])]

\* str.strip(): drop leading and trailing whitespace
strip(s) ==
  LET keep == {i \in 1..Len(s) : ~isspace(s[i])}
  IN IF keep = {} THEN <<>>
     ELSE LET first == CHOOSE i \in keep : \A j \in keep : i <= j
              last  == CHOOSE i \in keep : \A j \in keep : i >= j
          IN SubSeq(s, first, last)

\* "".join(c for c in title if c.isalnum() or c.isspace())
title_clean(title) == SelectSeq(title, LAMBDA c : isalnum(c) \/ isspace(c))

\* str.split(): the maximal runs of non-whitespace characters, in order
RECURSIVE split_from(_, _, _, _)
split_from(s, i, word, words) ==
  IF i > Len(s)
  THEN IF word = <<>> THEN words ELSE Append(words, word)
  ELSE IF isspace(s[i])
       THEN IF word = <<>>
            THEN split_from(s, i + 1, <<>>, words)
            ELSE split_from(s, i + 1, <<>>, Append(words, word))
       ELSE split_from(s, i + 1, Append(word, s[i]), words)

split(s) == split_from(s, 1, <<>>, <<>>)

\* The characters of every title string the model uses.
Chars(t) ==
  CASE
    t = "Flood hits city" -> <<"F", "l", "o", "o", "d", " ", "h", "i", "t", "s", " ", "c", "i", "t", "y">>
  []
    t = "Flooding hits city again" -> <<"F", "l", "o", "o", "d", "i", "n", "g", " ", "h", "i", "t", "s", " ", "c", "i", "t", "y", " ", "a", "g", "a", "i", "n">>
  []
    t = "Unrelated story" -> <<"U", "n", "r", "e", "l", "a", "t", "e", "d", " ", "s", "t", "o", "r", "y">>
  []
    t = "" -> <<>>
  []
    t = "  " -> <<" ", " ">>
  []
    t = "FLOOD hits city!" -> <<"F", "L", "O", "O", "D", " ", "h", "i", "t", "s", " ", "c", "i", "t", "y", "!">>
  []
    t = "Flood hits city again" -> <<"F", "l", "o", "o", "d", " ", "h", "i", "t", "s", " ", "c", "i", "t", "y", " ", "a", "g", "a", "i", "n">>
  []
    t = "city hits Flood city" -> <<"c", "i", "t", "y", " ", "h", "i", "t", "s", " ", "F", "l", "o", "o", "d", " ", "c", "i", "t", "y">>
  []
    t = "?!" -> <<"?", "!">>
  []
    t = "a b c d e f g h i j" -> <<"a", " ", "b", " ", "c", " ", "d", " ", "e", " ", "f", " ", "g", " ", "h", " ", "i", " ", "j">>
  []
    t = "a b c d e f g x y z" -> <<"a", " ", "b", " ", "c", " ", "d", " ", "e", " ", "f", " ", "g", " ", "x", " ", "y", " ", "z">>
  []
    t = "a b c d e f u x y z" -> <<"a", " ", "b", " ", "c", " ", "d", " ", "e", " ", "f", " ", "u", " ", "x", " ", "y", " ", "z">>
  []
    t = "Solar boom" -> <<"S", "o", "l", "a", "r", " ", "b", "o", "o", "m">>
  []
    t = "Bank merger" -> <<"B", "a", "n", "k", " ", "m", "e", "r", "g", "e", "r">>
  []
    t = "Rates rise" -> <<"R", "a", "t", "e", "s", " ", "r", "i", "s", "e">>
  []
    t = "Acme rebrand" -> <<"A", "c", "m", "e", " ", "r", "e", "b", "r", "a", "n", "d">>
  []
    t = "Acme stock" -> <<"A", "c", "m", "e", " ", "s", "t", "o", "c", "k">>
  []
    t = "Acme hires" -> <<"A", "c", "m", "e", " ", "h", "i", "r", "e", "s">>

\* every title string of the model
AllTitles ==
  { "Flood hits city", "Flooding hits city again", "Unrelated story", "",
    "  ", "FLOOD hits city!", "Flood hits city again", "city hits Flood city",
    "?!", "a b c d e f g h i j", "a b c d e f g x y z", "a b c d e f u x y z",
    "Solar boom", "Bank merger", "Rates rise", "Acme rebrand", "Acme stock",
    "Acme hires" }

\* set(title_clean.split()) of title.lower().strip(), tabulated per title
title_words == [t \in AllTitles |-> Range(split(title_clean(strip(lower(Chars(t))))))]

\* words_a of deduplicate_articles: the token set of an article's title
words_of(a) == title_words[a.title]

Max(a, b) == IF a >= b THEN a ELSE b

\* is_overlap with > in place of >=
is_overlap_strict(words_a, seen_words) ==
  /\ words_a # {}
  /\ seen_words # {}
  /\ 10 * Cardinality(words_a \cap seen_words)
       > 7 * Max(Cardinality(words_a), Cardinality(seen_words))

\* is_overlap with the threshold 0.5 in place of 0.7
is_overlap_half(words_a, seen_words) ==
  /\ words_a # {}
  /\ seen_words # {}
  /\ 10 * Cardinality(words_a \cap seen_words)
       >= 5 * Max(Cardinality(words_a), Cardinality(seen_words))

\* is_overlap with equal token sets, the empty ones too, counted as duplicates
is_overlap_equal_empty(words_a, seen_words) ==
  \/ words_a = seen_words
  \/ /\ words_a # {}
     /\ seen_words # {}
     /\ 10 * Cardinality(words_a \cap seen_words)
          >= 7 * Max(Cardinality(words_a), Cardinality(seen_words))

\* the comparison of words_a with one accepted token set:
\* both non-empty and len(a & b) / max(len(a), len(b)) >= 0.7
is_overlap(words_a, seen_words) ==
  /\ words_a # {}
  /\ seen_words # {}
  /\ 10 * Cardinality(words_a \cap seen_words)
       >= 7 * Max(Cardinality(words_a), Cardinality(seen_words))

\* the loop with seen.append(words_a) done for the duplicates too
RECURSIVE dedup_from_seen_all(_, _, _, _)
dedup_from_seen_all(cands, i, seen, unique) ==
  IF i > Len(cands) THEN unique
  ELSE LET words_a == words_of(cands[i])
           is_dup  == \E k \in 1..Len(seen) : is_overlap(words_a, seen[k])
       IN dedup_from_seen_all(cands, i + 1, Append(seen, words_a),
                              IF is_dup THEN unique
                              ELSE Append(unique, cands[i]))

\* the loop body of deduplicate_articles from candidate i on
RECURSIVE dedup_from(_, _, _, _)
dedup_from(cands, i, seen, unique) ==
  IF i > Len(cands) THEN unique
  ELSE LET words_a == words_of(cands[i])
           is_dup  == \E k \in 1..Len(seen) : is_overlap(words_a, seen[k])
       IN IF is_dup
          THEN dedup_from(cands, i + 1, seen, unique)
          ELSE dedup_from(cands, i + 1, Append(seen, words_a),
                          Append(unique, cands[i]))

\* deduplicate_articles starting its walk at the second candidate
deduplicate_articles_skip_first(cands) == dedup_from(cands, 2, <<>>, <<>>)

deduplicate_articles(cands) == dedup_from(cands, 1, <<>>, <<>>)

(***************************************************************************)
(* Configuration (config.json) and the inputs the external services give.  *)
(***************************************************************************)
\* config["industries"]: name and RSS feeds
Industries ==
  << [name |-> "Fintech", rss_feeds |-> <<"feed-a">>],
     [name |-> "Tourism", rss_feeds |-> <<>>] >>

\* config["accounts"]: name and type
Accounts ==
  << [name |-> "Acme",   type |-> "prospect"],
     [name |-> "Globex", type |-> "client"] >>

\* pageSize of the industry query and the cap on entries taken per RSS feed
ARTICLES_FETCH == 12
\* pageSize of the account query
ACCOUNTS_FETCH == 5

\* title lists the news API answers an industry query with
NewsSamples ==
  { <<>>,
    <<"Flood hits city", "FLOOD hits city!", "Unrelated story">>,
    <<"Flood hits city", "Unrelated story", "Solar boom", "Bank merger",
      "Rates rise">> }

\* title lists an RSS feed holds
RssSamples ==
  { <<>>, <<"Flood hits city again", "Solar boom">>,
    [i \in 1..(ARTICLES_FETCH + 1) |->
       IF i <= ARTICLES_FETCH THEN "Flooding hits city again"
       ELSE "Rates rise"] }

\* title lists the news API answers an account query with
AccountSamples ==
  { <<>>, <<"Acme stock", "Acme rebrand", "Acme hires">> }

\* what one classifier call can end in
ClassifierOutcomes == {"relevant", "not_relevant", "no_json", "bad_json", "exception"}

\* the titles candidate lists are drawn from in SpecDedup
DedupTitles ==
  { "Flood hits city", "Flooding hits city again", "Unrelated story", "",
    "  ", "FLOOD hits city!", "Flood hits city again", "city hits Flood city",
    "?!", "a b c d e f g h i j", "a b c d e f g x y z", "a b c d e f u x y z" }

\* a fetched list of articles with the given titles; url tells them apart
Articles(titles, base) ==
  [i \in 1..Len(titles) |-> [title |-> titles[i], url |-> base + i]]

SeqsUpTo(S, n) == UNION {[1..k -> S] : k \in 0..n}

\* the dated file and the stable one main() writes
FileNames == {"digest_DATE.html", "index.html"}

\* no document: html before generate_html, a file before it is written
NoHtml == [total |-> -1, sections |-> <<>>, radar |-> <<>>]

VARIABLES
  pc,                    \* position of main()
  ARTICLES_TARGET,       \* config["articles_per_industry"]
  industry,              \* index of the industry being processed
  feed,                  \* index of the next RSS feed of the industry
  candidates,            \* main's local candidates
  fetched,               \* the list last passed to deduplicate_articles
  good_articles,         \* main's local good_articles
  article,               \* index in candidates of the loop variable article
  all_industry_articles, \* the digest: one entry per processed industry
  total,                 \* running total of retained articles
  account,               \* index of the account being processed
  account_hits,          \* main's local account_hits
  calls,                 \* every classifier call made so far, in order
  last_outcome,          \* how the external call of the last step ended
  html,                  \* main's local html
  files,                 \* content of the two output files
  effects,               \* the publish steps taken so far, in order
  briefing,              \* the briefing text, what is left of it while splitting
  briefing_blocks,       \* post_to_slack's local briefing_blocks
  clock                  \* seconds since wait_for_deployment read start

\* the variables of the publish steps of main()
publish_vars == <<html, files, effects, briefing, briefing_blocks>>

vars == <<pc, ARTICLES_TARGET, industry, feed, candidates, fetched,
          good_articles, article, all_industry_articles, total, account,
          account_hits, calls, last_outcome, html, files, effects, briefing,
          briefing_blocks, clock>>

\* candidates = deduplicate_articles(candidates); good_articles = []
Deduplicate ==
  /\ pc = "rss"
  /\ feed > Len(Industries[industry].rss_feeds)
  /\ fetched' = candidates
  /\ candidates' = deduplicate_articles(candidates)
  /\ good_articles' = <<>>
  /\ article' = 1
  /\ pc' = "classify"
  /\ last_outcome' = "none"
  /\ UNCHANGED clock
  /\ UNCHANGED <<ARTICLES_TARGET, industry, feed, all_industry_articles,
                 total, account, account_hits, calls, publish_vars>>

Min(a, b) == IF a <= b THEN a ELSE b

\* str.find(c): index from 0 of the first c in s, -1 when there is none
find(s, c) ==
  LET at == {i \in 1..Len(s) : s[i] = c}
  IN IF at = {} THEN -1 ELSE (CHOOSE i \in at : \A j \in at : i <= j) - 1

\* str.rfind(c): index from 0 of the last c in s, -1 when there is none
rfind(s, c) ==
  LET at == {i \in 1..Len(s) : s[i] = c}
  IN IF at = {} THEN -1 ELSE (CHOOSE i \in at : \A j \in at : i >= j) - 1

\* s[a:b] for 0 <= a and 0 <= b
slice(s, a, b) == SubSeq(s, a + 1, Min(b, Len(s)))

\* the replies of the language model to a classification prompt; in them
\* T stands for the members of a relevant verdict ("relevant": true, ...),
\* F for "relevant": false and x for any other character
ModelReplies ==
  { <<"{", "T", "}">>, <<"{", "F", "}">>, <<"{", "}">>,
    <<"x", "{", "T", "}", "x">>, <<" ", "{", "T", "}", "\n">>,
    <<>>, <<"x">>, <<"}", "{">>, <<"{", "T">>,
    <<"{", "x", "}">>, <<"{", "T", "}", "x", "{", "F", "}">> }

\* what claude.messages.create does: it returns a reply or it raises
ModelResponses ==
  {[raised |-> FALSE, text |-> t] : t \in ModelReplies}
    \cup {[raised |-> TRUE, text |-> <<>>]}

\* json.loads of the extracted text: the object, or "raises"
json_loads(s) ==
  IF s = <<"{", "T", "}">> THEN "relevant"
  ELSE IF s \in {<<"{", "F", "}">>, <<"{", "}">>} THEN "not_relevant"
  ELSE "raises"

\* how the body of evaluate_and_summarize / evaluate_account_article ends
\* for a reply of the model, or for the exception of a failed call
outcome_of(response) ==
  IF response.raised THEN "exception"
  ELSE LET text  == strip(response.text)
           start == find(text, "{")
           end   == rfind(text, "}") + 1
       IN IF start # -1 /\ end > start
          THEN LET parsed == json_loads(slice(text, start, end))
               IN IF parsed = "raises" THEN "bad_json" ELSE parsed
          ELSE "no_json"

\* outcome_of tabulated per response
outcome_table == [r \in ModelResponses |-> outcome_of(r)]

\* how a call can end: the outcomes of the responses of the model
call_outcomes == {outcome_table[r] : r \in ModelResponses}

\* a failed call taken for a relevant verdict
evaluation_failure_relevant(outcome) ==
  IF outcome \in {"relevant", "exception", "bad_json", "no_json"}
  THEN [relevant |-> TRUE, summary |-> "summary"]
  ELSE [relevant |-> FALSE]

\* the dict evaluate_and_summarize / evaluate_account_article returns
evaluation(outcome) ==
  IF outcome = "relevant"
  THEN [relevant |-> TRUE, summary |-> "summary"]
  ELSE [relevant |-> FALSE]

\* the candidate with the enrichment fields main() sets on it
enriched(a, result) ==
  [title |-> a.title, url |-> a.url, summary |-> result.summary]

\* the loop without its break on the target
target_reached_never(good) == FALSE

\* the loop test with > in place of >=
target_reached_off_by_one(good) == Len(good) > ARTICLES_TARGET

\* if len(good_articles) >= ARTICLES_TARGET: break
target_reached(good) == Len(good) >= ARTICLES_TARGET

\* the relevant article put in front of the list
keep_article_in_front(good, a) == <<a>> \o good

\* good_articles.append(article)
keep_article(good, a) == Append(good, a)

\* the industry's entry appended only when it has articles
digest_append_nonempty(digest, name, good) ==
  IF good = <<>> THEN digest
  ELSE Append(digest, [name |-> name, articles |-> good])

\* all_industry_articles.append({"name": ..., "articles": good_articles})
digest_append(digest, name, good) ==
  Append(digest, [name |-> name, articles |-> good])

\* the total set to the count of the industry at hand
add_total_overwrites(sum, good) == Len(good)

\* total += len(good_articles)
add_total(sum, good) == sum + Len(good)

\* the account loop without its break
account_loop_goes_on_always(relevant) == TRUE

\* the account loop goes on to the next candidate unless the verdict was
\* relevant (found = True; break)
account_loop_goes_on(relevant) == ~relevant

\* how a fetch ended, for the status of the response or an exception
fetch_outcome(status) ==
  IF status = "ok" THEN "none"
  ELSE IF status = "error" THEN "bad_status" ELSE "network_failure"

\* candidates = fetch_articles(industry), status "ok" or an error status
FetchArticles ==
  /\ pc = "fetch_articles"
  /\ \E status \in {"ok", "error"} : \E titles \in NewsSamples :
       /\ candidates' = IF status = "ok"
                        THEN Articles(SubSeq(titles, 1, Min(Len(titles), ARTICLES_FETCH)), 0)
                        ELSE <<>>
       /\ last_outcome' = fetch_outcome(status)
       /\ UNCHANGED clock
  /\ feed' = 1
  /\ pc' = "rss"
  /\ UNCHANGED <<ARTICLES_TARGET, industry, fetched, good_articles, article,
                 all_industry_articles, total, account, account_hits, calls, publish_vars>>

\* requests.get or response.json() raises inside fetch_articles: nothing
\* catches it and main() ends
FetchArticlesRaises ==
  /\ pc = "fetch_articles"
  /\ pc' = "raised"
  /\ last_outcome' = fetch_outcome("exception")
  /\ UNCHANGED clock
  /\ UNCHANGED <<ARTICLES_TARGET, industry, feed, candidates, fetched,
                 good_articles, article, all_industry_articles, total,
                 account, account_hits, calls,
                 publish_vars>>

\* feed.entries[:ARTICLES_FETCH]
rss_entries_uncapped(entries) == entries

rss_entries(entries) == slice(entries, 0, ARTICLES_FETCH)

\* candidates.extend(rss)
extend_in_front(cands, rss) == rss \o cands

extend(cands, rss) == cands \o rss

\* rss = fetch_from_rss(feed_url); candidates.extend(rss) for the next feed
FetchFromRss ==
  /\ pc = "rss"
  /\ feed <= Len(Industries[industry].rss_feeds)
  /\ \E entries \in RssSamples :
       candidates' = extend(candidates,
                            Articles(rss_entries(entries), ARTICLES_FETCH * feed))
  /\ feed' = feed + 1
  /\ last_outcome' = "none"
  /\ UNCHANGED clock
  /\ UNCHANGED <<pc, ARTICLES_TARGET, industry, fetched, good_articles,
                 article, all_industry_articles, total, account,
                 account_hits, calls,
                 publish_vars>>

\* one pass of the classification loop that reaches evaluate_and_summarize
Classify ==
  /\ pc = "classify"
  /\ article <= Len(candidates)
  /\ ~target_reached(good_articles)
  /\ \E outcome \in call_outcomes :
       LET result  == evaluation(outcome)
           a       == candidates[article]
       IN /\ outcome \in ClassifierOutcomes
          /\ last_outcome' = outcome
          /\ UNCHANGED clock
          /\ calls' = Append(calls, [fn       |-> "evaluate_and_summarize",
                                     scope    |-> Industries[industry].name,
                                     article  |-> a,
                                     relevant |-> result.relevant])
          /\ good_articles' = IF result.relevant
                              THEN keep_article(good_articles, enriched(a, result))
                              ELSE good_articles
  /\ article' = article + 1
  /\ UNCHANGED <<pc, ARTICLES_TARGET, industry, feed, candidates, fetched,
                 all_industry_articles, total, account, account_hits,
                 publish_vars>>

\* the loop ends (break on the target, or candidates exhausted) and the
\* industry's entry is appended to the digest
IndustryDone ==
  /\ pc = "classify"
  /\ \/ article > Len(candidates)
     \/ target_reached(good_articles)
  /\ all_industry_articles' =
       digest_append(all_industry_articles, Industries[industry].name,
                     good_articles)
  /\ total' = add_total(total, good_articles)
  /\ industry' = industry + 1
  /\ pc' = IF industry < Len(Industries) THEN "fetch_articles" ELSE "accounts"
  /\ account' = 1
  /\ last_outcome' = "none"
  /\ UNCHANGED clock
  /\ UNCHANGED <<ARTICLES_TARGET, feed, candidates, fetched, good_articles,
                 article, account_hits, calls,
                 publish_vars>>

\* candidates = fetch_account_news(account); a bad status and an exception
\* both give []
FetchAccountNews ==
  /\ pc = "accounts"
  /\ \E status \in {"ok", "error", "exception"} : \E titles \in AccountSamples :
       /\ candidates' = IF status = "ok"
                        THEN Articles(SubSeq(titles, 1, Min(Len(titles), ACCOUNTS_FETCH)), 0)
                        ELSE <<>>
       /\ last_outcome' = fetch_outcome(status)
       /\ UNCHANGED clock
  /\ article' = 1
  /\ pc' = "account_eval"
  /\ UNCHANGED <<ARTICLES_TARGET, industry, feed, fetched, good_articles,
                 all_industry_articles, total, account, account_hits, calls, publish_vars>>

\* where main() goes once the loop over one account's candidates is left
after_account == IF account < Len(Accounts) THEN "accounts" ELSE "render"

\* the characters of an account type
TypeChars(t) ==
  CASE t = "prospect" -> <<"p", "r", "o", "s", "p", "e", "c", "t">>
    [] t = "Prospect" -> <<"P", "r", "o", "s", "p", "e", "c", "t">>
    [] t = "client"   -> <<"c", "l", "i", "e", "n", "t">>
    [] t = "CLIENT"   -> <<"C", "L", "I", "E", "N", "T">>
    [] t = "partner"  -> <<"p", "a", "r", "t", "n", "e", "r">>

\* account.get("type", "prospect"), "None" standing for an account
\* without a type
account_type(acct) == IF acct.type = "None" THEN "prospect" ELSE acct.type

\* account.get("type", "prospect").lower() == "prospect"
is_prospect(acct) == lower(TypeChars(account_type(acct))) = TypeChars("prospect")

\* which of outreach_email and relationship_note a relevant verdict of the
\* language model holds
AnswerFields == {"email", "note", "both", "none"}

\* the field output_spec asks the language model for
asked_field(acct) == IF is_prospect(acct) THEN "email" ELSE "note"

\* the fields offered in a step: any of them, or the one asked for
FieldAnswers(acct, any_fields) ==
  IF any_fields THEN AnswerFields ELSE {asked_field(acct)}

\* the hit main() appends for a relevant verdict holding the given fields;
\* "None" is a field result.get does not find
account_hit(acct, a, result, fields) ==
  [account           |-> acct,
   article           |-> a,
   summary           |-> result.summary,
   outreach_email    |-> IF fields \in {"email", "both"} THEN "email" ELSE "None",
   relationship_note |-> IF fields \in {"note", "both"} THEN "note" ELSE "None"]

\* one pass of the account loop: evaluate_account_article, and on a
\* relevant verdict the hit is appended and the loop left; the verdict
\* holds the field asked for, or with any_fields any of the fields
EvaluateAccountArticleOf(any_fields) ==
  /\ pc = "account_eval"
  /\ article <= Len(candidates)
  /\ \E outcome \in call_outcomes :
     \E fields \in IF outcome = "relevant"
                   THEN FieldAnswers(Accounts[account], any_fields)
                   ELSE {"none"} :
       LET result  == evaluation(outcome)
           a       == candidates[article]
       IN /\ outcome \in ClassifierOutcomes
          /\ last_outcome' = outcome
          /\ UNCHANGED clock
          /\ calls' = Append(calls, [fn       |-> "evaluate_account_article",
                                     scope    |-> Accounts[account].name,
                                     article  |-> a,
                                     relevant |-> result.relevant])
          /\ account_hits' =
               IF result.relevant
               THEN Append(account_hits,
                           account_hit(Accounts[account], a, result, fields))
               ELSE account_hits
          /\ IF account_loop_goes_on(result.relevant)
             THEN /\ article' = article + 1
                  /\ UNCHANGED <<pc, account>>
             ELSE /\ account' = account + 1
                  /\ pc' = after_account
                  /\ UNCHANGED article
  /\ UNCHANGED <<ARTICLES_TARGET, industry, feed, candidates, fetched,
                 good_articles, all_industry_articles, total, publish_vars>>

\* the pass with a language model that answers with the field asked for
EvaluateAccountArticle == EvaluateAccountArticleOf(FALSE)

\* the pass with a language model that answers with any of the fields
EvaluateAccountArticleAnyFields == EvaluateAccountArticleOf(TRUE)

\* the account's candidates are exhausted without a hit
AccountNothing ==
  /\ pc = "account_eval"
  /\ article > Len(candidates)
  /\ account' = account + 1
  /\ pc' = after_account
  /\ last_outcome' = "none"
  /\ UNCHANGED clock
  /\ UNCHANGED <<ARTICLES_TARGET, industry, feed, candidates, fetched,
                 good_articles, article, all_industry_articles, total,
                 account_hits, calls,
                 publish_vars>>

\* the state main() starts in
Init ==
  /\ pc = "fetch_articles"
  /\ ARTICLES_TARGET \in 0..MaxTarget
  /\ industry = 1
  /\ feed = 1
  /\ candidates = <<>>
  /\ fetched = <<>>
  /\ good_articles = <<>>
  /\ article = 1
  /\ all_industry_articles = <<>>
  /\ total = 0
  /\ account = 1
  /\ account_hits = <<>>
  /\ calls = <<>>
  /\ last_outcome = "none"
  /\ html = NoHtml
  /\ files = [f \in FileNames |-> NoHtml]
  /\ effects = <<>>
  /\ briefing = <<>>
  /\ briefing_blocks = <<>>
  /\ clock = 0


(***************************************************************************)
(* The document main() renders from the digest and the account hits.       *)
(***************************************************************************)
\* the first character dropped whatever it is
lstrip_drops_a_character(s) == IF s = <<>> THEN <<>> ELSE Tail(s)

\* str.lstrip(): drop leading whitespace
lstrip(s) ==
  LET keep == {i \in 1..Len(s) : ~isspace(s[i])}
  IN IF keep = {} THEN <<>>
     ELSE SubSeq(s, CHOOSE i \in keep : \A j \in keep : i <= j, Len(s))

RECURSIVE sum_len(_)
\* sum(len(ind["articles"]) for ind in all_industry_articles)
sum_len(digest) ==
  IF digest = <<>> THEN 0
  ELSE Len(Head(digest).articles) + sum_len(Tail(digest))

\* the cards of a section without the branch for an empty article list
section_cards_no_placeholder(articles) ==
  [j \in 1..Len(articles) |->
     [class    |-> "card",
      headline |-> articles[j].title,
      summary  |-> articles[j].summary,
      href     |-> articles[j].url]]

\* the cards of a section with the newest article put first
section_cards_reversed(articles) ==
  IF articles = <<>>
  THEN <<[class |-> "card empty-card"]>>
  ELSE [j \in 1..Len(articles) |->
          [class    |-> "card",
           headline |-> articles[Len(articles) + 1 - j].title,
           summary  |-> articles[Len(articles) + 1 - j].summary,
           href     |-> articles[Len(articles) + 1 - j].url]]

\* the cards of one section of generate_html: the placeholder card for an
\* empty article list, else one card per article
section_cards(articles) ==
  IF articles = <<>>
  THEN <<[class |-> "card empty-card"]>>
  ELSE [j \in 1..Len(articles) |->
          [class    |-> "card",
           headline |-> articles[j].title,
           summary  |-> articles[j].summary,
           href     |-> articles[j].url]]

\* the action block chosen by the field alone
action_block_ignores_type(hit) ==
  IF hit.outreach_email # "None" THEN "email"
  ELSE IF hit.relationship_note # "None" THEN "note"
  ELSE "none"

\* the action block of a radar card: the outreach draft, the relationship
\* talking point or nothing
action_block(hit) ==
  IF is_prospect(hit.account) /\ hit.outreach_email # "None" THEN "email"
  ELSE IF ~is_prospect(hit.account) /\ hit.relationship_note # "None" THEN "note"
  ELSE "none"

\* the document generate_html builds: the total of the header, one section
\* per entry of the digest and one radar card per account hit
generate_html(digest, hits) ==
  [total    |-> sum_len(digest),
   sections |-> [i \in 1..Len(digest) |->
                   [name  |-> digest[i].name,
                    num   |-> i,
                    count |-> Len(digest[i].articles),
                    cards |-> section_cards(digest[i].articles)]],
   radar    |-> [i \in 1..Len(hits) |->
                   [name     |-> hits[i].account.name,
                    headline |-> hits[i].article.title,
                    summary  |-> hits[i].summary,
                    action   |-> action_block(hits[i])]]]

\* html = generate_html(all_industry_articles, account_hits)
GenerateHtml ==
  /\ pc = "render"
  /\ html' = generate_html(all_industry_articles, account_hits)
  /\ pc' = "write_dated"
  /\ last_outcome' = "none"
  /\ UNCHANGED clock
  /\ UNCHANGED <<ARTICLES_TARGET, industry, feed, candidates, fetched,
                 good_articles, article, all_industry_articles, total,
                 account, account_hits, calls, files, effects, briefing,
                 briefing_blocks>>

\* main() from its start to the rendered document
Next ==
  \/ FetchArticles
  \/ FetchArticlesRaises
  \/ FetchFromRss
  \/ Deduplicate
  \/ Classify
  \/ IndustryDone
  \/ FetchAccountNews
  \/ EvaluateAccountArticle
  \/ AccountNothing
  \/ GenerateHtml

Spec == Init /\ [][Next]_vars

(***************************************************************************)
(* The publish steps of main(): render, write, git, poll, brief, post.     *)
(***************************************************************************)
\* the name of the file the write loop is at
file_at == IF pc = "write_dated" THEN "digest_DATE.html" ELSE "index.html"

\* one pass of the loop over [dated_filename, "index.html"]: f.write(html)
WriteFile ==
  /\ pc \in {"write_dated", "write_index"}
  /\ files' = [files EXCEPT ![file_at] = html]
  /\ effects' = Append(effects, [op |-> "write", ok |-> TRUE, file |-> file_at])
  /\ pc' = IF pc = "write_dated" THEN "write_index" ELSE "git add"
  /\ last_outcome' = "none"
  /\ UNCHANGED clock
  /\ UNCHANGED <<ARTICLES_TARGET, industry, feed, candidates, fetched,
                 good_articles, article, all_industry_articles, total,
                 account, account_hits, calls, html, briefing,
                 briefing_blocks>>

\* the three git commands of main() in their order
GitCommands == <<"git add", "git commit", "git push">>

\* the git commands run without check=True: a failure goes unnoticed
after_git_unchecked(ok) ==
  IF pc = "git add" THEN "git commit"
  ELSE IF pc = "git commit" THEN "git push"
  ELSE "wait_for_deployment"

\* where main() is after the git command at pc ended with the given result:
\* at the next command, past the try block, or returned from the except
after_git(ok) ==
  IF ~ok THEN "returned"
  ELSE IF pc = "git add" THEN "git commit"
  ELSE IF pc = "git commit" THEN "git push"
  ELSE "wait_for_deployment"

\* subprocess.run(["git", ...], check=True): the command succeeds, or it
\* fails and the except branch returns from main()
RunGit ==
  /\ pc \in Range(GitCommands)
  /\ \E ok \in BOOLEAN :
       /\ effects' = Append(effects, [op |-> pc, ok |-> ok])
       /\ pc' = after_git(ok)
  /\ last_outcome' = "none"
  /\ UNCHANGED clock
  /\ UNCHANGED <<ARTICLES_TARGET, industry, feed, candidates, fetched,
                 good_articles, article, all_industry_articles, total,
                 account, account_hits, calls, html, files, briefing,
                 briefing_blocks>>

\* main() returning when the page did not show up
after_wait_stops_on_timeout(deployed) ==
  IF deployed THEN "generate_slack_briefing" ELSE "returned"

\* where main() is after wait_for_deployment returned: the value is dropped
after_wait(deployed) == "generate_slack_briefing"

\* wait_for_deployment(page_url): True on a poll that shows today's page,
\* False on the timeout
WaitForDeployment ==
  /\ pc = "wait_for_deployment"
  /\ \E deployed \in BOOLEAN :
       /\ effects' = Append(effects, [op |-> "wait_for_deployment", ok |-> deployed])
       /\ pc' = after_wait(deployed)
  /\ last_outcome' = "none"
  /\ UNCHANGED clock
  /\ UNCHANGED <<ARTICLES_TARGET, industry, feed, candidates, fetched,
                 good_articles, article, all_industry_articles, total,
                 account, account_hits, calls, html, files, briefing,
                 briefing_blocks>>

\* the characters of the briefing texts of the model: a word character, a
\* space and a newline
BriefingChars == {"a", " ", "\n"}

\* the replies of the language model to the briefing prompt
BriefingReplies == SeqsUpTo(BriefingChars, MaxReplyLen)

RECURSIVE join_lines(_)
\* "\n".join(lines)
join_lines(lines) ==
  IF lines = <<>> THEN <<>>
  ELSE IF Len(lines) = 1 THEN lines[1]
  ELSE lines[1] \o <<"\n">> \o join_lines(Tail(lines))

\* radar_lines of generate_slack_briefing: the heading and a line per hit,
\* each line shortened to its shape (two words, one word)
radar_lines(hits) == <<<<"a", " ", "a">>>> \o [i \in 1..Len(hits) |-> <<"a">>]

\* the text generate_slack_briefing returns for a reply of the model
slack_briefing(reply, hits) ==
  LET text == strip(reply)
  IN IF hits # <<>>
     THEN join_lines(radar_lines(hits)) \o <<"\n", "\n">> \o text
     ELSE text

\* briefing = generate_slack_briefing(all_industry_articles, page_url,
\* account_hits), the model call returning a reply
GenerateSlackBriefing ==
  /\ pc = "generate_slack_briefing"
  /\ \E reply \in BriefingReplies :
       briefing' = slack_briefing(reply, account_hits)
  /\ briefing_blocks' = <<>>
  /\ effects' = Append(effects, [op |-> "generate_slack_briefing", ok |-> TRUE,
                                 text |-> briefing'])
  /\ pc' = "post_to_slack"
  /\ last_outcome' = "none"
  /\ UNCHANGED clock
  /\ UNCHANGED <<ARTICLES_TARGET, industry, feed, candidates, fetched,
                 good_articles, article, all_industry_articles, total,
                 account, account_hits, calls, html, files>>

\* claude.messages.create raises inside generate_slack_briefing: nothing
\* catches it and main() ends
GenerateSlackBriefingRaises ==
  /\ pc = "generate_slack_briefing"
  /\ effects' = Append(effects, [op |-> "generate_slack_briefing", ok |-> FALSE])
  /\ pc' = "raised"
  /\ last_outcome' = "none"
  /\ UNCHANGED clock
  /\ UNCHANGED <<ARTICLES_TARGET, industry, feed, candidates, fetched,
                 good_articles, article, all_industry_articles, total,
                 account, account_hits, calls, html, files, briefing,
                 briefing_blocks>>

\* MAX_BLOCK of post_to_slack
MAX_BLOCK == BlockSize

\* the chunk without the search for a break
next_chunk_no_cut(text) == slice(text, 0, MAX_BLOCK)

\* the chunk with the break searched in the whole text
next_chunk_whole_text(text) ==
  LET chunk == slice(text, 0, MAX_BLOCK)
  IN IF Len(text) > MAX_BLOCK
     THEN LET newline == rfind(text, "\n")
              cut     == IF newline = -1 THEN rfind(text, " ") ELSE newline
          IN IF cut > 0 THEN slice(text, 0, cut) ELSE chunk
     ELSE chunk

\* the chunk one pass of the splitting loop cuts off the front of the text
next_chunk(text) ==
  LET chunk == slice(text, 0, MAX_BLOCK)
  IN IF Len(text) > MAX_BLOCK
     THEN LET newline == rfind(chunk, "\n")
              cut     == IF newline = -1 THEN rfind(chunk, " ") ELSE newline
          IN IF cut > 0 THEN slice(text, 0, cut) ELSE chunk
     ELSE chunk

\* one pass of the splitting loop of post_to_slack
SplitBriefing ==
  /\ pc = "post_to_slack"
  /\ briefing # <<>>
  /\ LET chunk == next_chunk(briefing)
     IN /\ briefing_blocks' =
             Append(briefing_blocks, [type |-> "section", text |-> chunk])
        /\ briefing' = lstrip(slice(briefing, Len(chunk), Len(briefing)))
  /\ last_outcome' = "none"
  /\ UNCHANGED clock
  /\ UNCHANGED <<pc, ARTICLES_TARGET, industry, feed, candidates, fetched,
                 good_articles, article, all_industry_articles, total,
                 account, account_hits, calls, html, files, effects>>

\* the payload with the section blocks put after the button
slack_payload_sections_last(blocks, total_articles) ==
  <<[type |-> "header"],
    [type |-> "divider"],
    [type |-> "context", total |-> total_articles,
     industries |-> Len(Industries)],
    [type |-> "actions", url |-> "page_url"]>> \o blocks

\* the blocks of the payload post_to_slack sends
slack_payload(blocks, total_articles) ==
  <<[type |-> "header"]>> \o blocks \o
  <<[type |-> "divider"],
    [type |-> "context", total |-> total_articles,
     industries |-> Len(Industries)],
    [type |-> "actions", url |-> "page_url"]>>

\* the status codes the webhook answers with
SlackStatus == {200, 500}

\* the post sent again after a status other than 200
after_post_retries(status) == IF status = 200 THEN "done" ELSE "post_to_slack"

\* where main() is after requests.post returned: the status is printed and
\* main() goes on to its last prints
after_post(status) == "done"

\* requests.post(SLACK_WEBHOOK_URL, json=payload) returns
PostToSlack ==
  /\ pc = "post_to_slack"
  /\ briefing = <<>>
  /\ \E status \in SlackStatus :
       /\ effects' = Append(effects,
                            [op |-> "post", ok |-> status = 200,
                             payload |-> slack_payload(briefing_blocks, total)])
       /\ pc' = after_post(status)
  /\ last_outcome' = "none"
  /\ UNCHANGED clock
  /\ UNCHANGED <<ARTICLES_TARGET, industry, feed, candidates, fetched,
                 good_articles, article, all_industry_articles, total,
                 account, account_hits, calls, html, files, briefing,
                 briefing_blocks>>

\* requests.post raises (no connection, no webhook URL): nothing catches it
\* and main() ends
PostToSlackRaises ==
  /\ pc = "post_to_slack"
  /\ briefing = <<>>
  /\ effects' = Append(effects,
                       [op |-> "post", ok |-> FALSE,
                        payload |-> slack_payload(briefing_blocks, total)])
  /\ pc' = "raised"
  /\ last_outcome' = "none"
  /\ UNCHANGED clock
  /\ UNCHANGED <<ARTICLES_TARGET, industry, feed, candidates, fetched,
                 good_articles, article, all_industry_articles, total,
                 account, account_hits, calls, html, files, briefing,
                 briefing_blocks>>

NextPublish ==
  \/ GenerateHtml
  \/ WriteFile
  \/ RunGit
  \/ WaitForDeployment
  \/ GenerateSlackBriefing
  \/ GenerateSlackBriefingRaises
  \/ SplitBriefing
  \/ PostToSlack
  \/ PostToSlackRaises

\* a candidate, a retained article and a logged classifier call
Candidate(title, url) == [title |-> title, url |-> url]
Retained(title, url) == [title |-> title, url |-> url, summary |-> "summary"]
Call(fn, scope, title, url, relevant) ==
  [fn |-> fn, scope |-> scope, article |-> Candidate(title, url),
   relevant |-> relevant]

AcmeNews == Articles(<<"Acme stock", "Acme rebrand", "Acme hires">>, 0)
DupNews == Articles(<<"Flood hits city", "FLOOD hits city!", "Unrelated story">>, 0)

\* main() at its render step with the given values of its variables
AtRender(target, digest, hits, log, cands, passed, good, at, outcome) ==
  /\ pc = "render"
  /\ ARTICLES_TARGET = target
  /\ industry = Len(Industries) + 1
  /\ feed = 1
  /\ candidates = cands
  /\ fetched = passed
  /\ good_articles = good
  /\ article = at
  /\ all_industry_articles = digest
  /\ total = sum_len(digest)
  /\ account = Len(Accounts) + 1
  /\ account_hits = hits
  /\ calls = log
  /\ last_outcome = outcome
  /\ html = NoHtml
  /\ files = [f \in FileNames |-> NoHtml]
  /\ effects = <<>>
  /\ briefing = <<>>
  /\ briefing_blocks = <<>>
  /\ clock = 0

\* a run of Spec with target 2 ends here: two articles for the first
\* industry, none for the second, a hit for the prospect only
RenderOneHit ==
  AtRender(2,
    << [name |-> "Fintech",
        articles |-> << Retained("Flood hits city", 1),
                        Retained("Unrelated story", 3) >>],
       [name |-> "Tourism", articles |-> <<>>] >>,
    << [account |-> Accounts[1], article |-> Candidate("Acme rebrand", 2),
        summary |-> "summary", outreach_email |-> "email",
        relationship_note |-> "None"] >>,
    << Call("evaluate_and_summarize", "Fintech", "Flood hits city", 1, TRUE),
       Call("evaluate_and_summarize", "Fintech", "Unrelated story", 3, TRUE),
       Call("evaluate_account_article", "Acme", "Acme stock", 1, FALSE),
       Call("evaluate_account_article", "Acme", "Acme rebrand", 2, TRUE),
       Call("evaluate_account_article", "Globex", "Acme stock", 1, FALSE),
       Call("evaluate_account_article", "Globex", "Acme rebrand", 2, FALSE),
       Call("evaluate_account_article", "Globex", "Acme hires", 3, FALSE) >>,
    AcmeNews, <<>>, <<>>, 4, "none")

\* a run of Spec with target 3 ends here: articles for both industries and
\* a hit for both accounts
RenderTwoHits ==
  AtRender(3,
    << [name |-> "Fintech",
        articles |-> << Retained("Flood hits city", 1),
                        Retained("Solar boom", 3),
                        Retained("Bank merger", 4) >>],
       [name |-> "Tourism",
        articles |-> << Retained("Unrelated story", 3) >>] >>,
    << [account |-> Accounts[1], article |-> Candidate("Acme stock", 1),
        summary |-> "summary", outreach_email |-> "email",
        relationship_note |-> "None"],
       [account |-> Accounts[2], article |-> Candidate("Acme hires", 3),
        summary |-> "summary", outreach_email |-> "None",
        relationship_note |-> "note"] >>,
    << Call("evaluate_and_summarize", "Fintech", "Flood hits city", 1, TRUE),
       Call("evaluate_and_summarize", "Fintech", "Unrelated story", 2, FALSE),
       Call("evaluate_and_summarize", "Fintech", "Solar boom", 3, TRUE),
       Call("evaluate_and_summarize", "Fintech", "Bank merger", 4, TRUE),
       Call("evaluate_and_summarize", "Tourism", "Flood hits city", 1, FALSE),
       Call("evaluate_and_summarize", "Tourism", "Unrelated story", 3, TRUE),
       Call("evaluate_account_article", "Acme", "Acme stock", 1, TRUE),
       Call("evaluate_account_article", "Globex", "Acme stock", 1, FALSE),
       Call("evaluate_account_article", "Globex", "Acme rebrand", 2, FALSE),
       Call("evaluate_account_article", "Globex", "Acme hires", 3, TRUE) >>,
    AcmeNews, DupNews, << Retained("Unrelated story", 3) >>, 3, "relevant")

\* a run of Spec with target 1 ends here: no article and no hit
RenderNothing ==
  AtRender(1,
    << [name |-> "Fintech", articles |-> <<>>],
       [name |-> "Tourism", articles |-> <<>>] >>,
    <<>>,
    << Call("evaluate_and_summarize", "Tourism", "Flood hits city", 1, FALSE),
       Call("evaluate_and_summarize", "Tourism", "Unrelated story", 3, FALSE) >>,
    <<>>, DupNews, <<>>, 1, "none")

\* the publish steps, started from three states in which Spec reaches the
\* render step
InitPublish == RenderOneHit \/ RenderTwoHits \/ RenderNothing

SpecPublish == InitPublish /\ [][NextPublish]_vars

(***************************************************************************)
(* The polling loop of wait_for_deployment, one step per statement.        *)
(***************************************************************************)
\* timeout=300 of wait_for_deployment, in seconds
timeout == 300
\* time.sleep(15)
sleep_seconds == 15
\* requests.get(url, timeout=10)
request_timeout == 10

\* the seconds one request of the poll takes
RequestSeconds == {0, 4, request_timeout}

\* what requests.get gives: a RequestException, or a response with a status
\* and a body that holds today's date or not
PollResponses ==
  {[raised |-> TRUE, status |-> 0, has_date |-> FALSE]} \cup
  [raised : {FALSE}, status : {200, 404}, has_date : BOOLEAN]

\* the name under which a response of the poll is noted in last_outcome
response_label(resp) ==
  IF resp.raised THEN "request_exception"
  ELSE IF resp.status # 200 THEN "other_status"
  ELSE IF resp.has_date THEN "status_200_with_date"
  ELSE "status_200_without_date"

\* while time.time() - start < timeout
loop_goes_on(seconds) == seconds < timeout

\* a page taken for deployed on status 200 alone
poll_deployed_any_page(status, has_date) == status = 200

\* a page taken for deployed on today's date alone
poll_deployed_any_status(status, has_date) == has_date

\* r.status_code == 200 and date_str in r.text
poll_deployed(status, has_date) == status = 200 /\ has_date

\* the test of the while loop; when it fails wait_for_deployment returns
\* False to main()
PollTest ==
  /\ pc = "poll_test"
  /\ IF loop_goes_on(clock)
     THEN /\ pc' = "poll_get"
          /\ UNCHANGED effects
     ELSE /\ pc' = after_wait(FALSE)
          /\ effects' = Append(effects, [op |-> "wait_for_deployment", ok |-> FALSE])
  /\ last_outcome' = "none"
  /\ UNCHANGED clock
  /\ UNCHANGED <<ARTICLES_TARGET, industry, feed, candidates, fetched,
                 good_articles, article, all_industry_articles, total,
                 account, account_hits, calls, html, files, briefing,
                 briefing_blocks>>

\* the body of the try: the request, which takes its time, and the test of
\* the response; on a deployed page wait_for_deployment returns True, on any
\* other response and on a RequestException the loop goes to its sleep
PollGet ==
  /\ pc = "poll_get"
  /\ \E resp \in PollResponses : \E seconds \in RequestSeconds :
       /\ clock' = clock + seconds
       /\ last_outcome' = response_label(resp)
       /\ IF ~resp.raised /\ poll_deployed(resp.status, resp.has_date)
          THEN /\ pc' = after_wait(TRUE)
               /\ effects' = Append(effects, [op |-> "wait_for_deployment", ok |-> TRUE])
          ELSE /\ pc' = "poll_sleep"
               /\ UNCHANGED effects
  /\ UNCHANGED <<ARTICLES_TARGET, industry, feed, candidates, fetched,
                 good_articles, article, all_industry_articles, total,
                 account, account_hits, calls, html, files, briefing,
                 briefing_blocks>>

\* print("."); time.sleep(15)
PollSleep ==
  /\ pc = "poll_sleep"
  /\ clock' = clock + sleep_seconds
  /\ pc' = "poll_test"
  /\ last_outcome' = "none"
  /\ UNCHANGED <<ARTICLES_TARGET, industry, feed, candidates, fetched,
                 good_articles, article, all_industry_articles, total,
                 account, account_hits, calls, html, files, effects, briefing,
                 briefing_blocks>>

NextPoll ==
  \/ PollTest
  \/ PollGet
  \/ PollSleep

\* the document of the run that ends in RenderNothing
NothingHtml ==
  generate_html(<< [name |-> "Fintech", articles |-> <<>>],
                   [name |-> "Tourism", articles |-> <<>>] >>, <<>>)

\* the publish steps up to the push, all succeeded
PushedLog ==
  << [op |-> "write", ok |-> TRUE, file |-> "digest_DATE.html"],
     [op |-> "write", ok |-> TRUE, file |-> "index.html"],
     [op |-> "git add", ok |-> TRUE],
     [op |-> "git commit", ok |-> TRUE],
     [op |-> "git push", ok |-> TRUE] >>

\* the run that ends in RenderNothing, with its two files written, at the
\* given place with the given log of publish steps and briefing text
NothingRun(at, log, text) ==
  /\ pc = at
  /\ ARTICLES_TARGET = 1
  /\ industry = Len(Industries) + 1
  /\ feed = 1
  /\ candidates = <<>>
  /\ fetched = DupNews
  /\ good_articles = <<>>
  /\ article = 1
  /\ all_industry_articles = << [name |-> "Fintech", articles |-> <<>>],
                                [name |-> "Tourism", articles |-> <<>>] >>
  /\ total = 0
  /\ account = Len(Accounts) + 1
  /\ account_hits = <<>>
  /\ calls = << Call("evaluate_and_summarize", "Tourism", "Flood hits city", 1, FALSE),
                Call("evaluate_and_summarize", "Tourism", "Unrelated story", 3, FALSE) >>
  /\ last_outcome = "none"
  /\ html = NothingHtml
  /\ files = [f \in FileNames |-> NothingHtml]
  /\ effects = log
  /\ briefing = text
  /\ briefing_blocks = <<>>
  /\ clock = 0

\* that run with its three git commands succeeded, at the given place
PushedNothing(at) == NothingRun(at, PushedLog, <<>>)

\* wait_for_deployment entered after a push that succeeded: start is read
\* and the loop is at its first test
InitPoll == PushedNothing("poll_test")

SpecPoll == InitPoll /\ [][NextPoll]_vars

\* every statement of the loop is executed once it is reached
SpecPollFair == SpecPoll /\ WF_vars(NextPoll)

(***************************************************************************)
(* The splitting loop of post_to_slack on any briefing text.               *)
(***************************************************************************)
\* the texts post_to_slack is called with in SpecSplit
SplitTexts == SeqsUpTo(BriefingChars, MaxBriefingLen)

\* post_to_slack entered with a text of SplitTexts, after a poll and a
\* briefing call that returned that text
InitSplit ==
  \E text \in SplitTexts :
    NothingRun("post_to_slack",
               PushedLog \o
               << [op |-> "wait_for_deployment", ok |-> TRUE],
                  [op |-> "generate_slack_briefing", ok |-> TRUE, text |-> text] >>,
               text)

NextSplit ==
  \/ SplitBriefing
  \/ PostToSlack

SpecSplit == InitSplit /\ [][NextSplit]_vars

\* the loop is not left standing at a pass it can take
SpecSplitFair == SpecSplit /\ WF_vars(SplitBriefing)

(***************************************************************************)
(* The account loop of main() with a language model that is free in the    *)
(* fields of its verdict.                                                   *)
(***************************************************************************)
\* main() at its account loop after a run over the industries that
\* retained nothing
InitAccounts ==
  /\ pc = "accounts"
  /\ ARTICLES_TARGET = 1
  /\ industry = Len(Industries) + 1
  /\ feed = 1
  /\ candidates = << Candidate("Flood hits city", 1),
                     Candidate("Unrelated story", 3) >>
  /\ fetched = DupNews
  /\ good_articles = <<>>
  /\ article = 3
  /\ all_industry_articles = << [name |-> "Fintech", articles |-> <<>>],
                                [name |-> "Tourism", articles |-> <<>>] >>
  /\ total = 0
  /\ account = 1
  /\ account_hits = <<>>
  /\ calls = << Call("evaluate_and_summarize", "Tourism", "Flood hits city", 1, FALSE),
                Call("evaluate_and_summarize", "Tourism", "Unrelated story", 3, FALSE) >>
  /\ last_outcome = "none"
  /\ html = NoHtml
  /\ files = [f \in FileNames |-> NoHtml]
  /\ effects = <<>>
  /\ briefing = <<>>
  /\ briefing_blocks = <<>>
  /\ clock = 0

NextAccounts ==
  \/ FetchAccountNews
  \/ EvaluateAccountArticleAnyFields
  \/ AccountNothing
  \/ GenerateHtml

SpecAccounts == InitAccounts /\ [][NextAccounts]_vars

\* the deduplicator applied to every candidate list up to MaxDedupLen
InitDedup ==
  /\ pc = "rss"
  /\ ARTICLES_TARGET = MaxTarget
  /\ industry = 1
  /\ feed = Len(Industries[1].rss_feeds) + 1
  /\ candidates \in {Articles(ts, 0) : ts \in SeqsUpTo(DedupTitles, MaxDedupLen)}
  /\ fetched = <<>>
  /\ good_articles = <<>>
  /\ article = 1
  /\ all_industry_articles = <<>>
  /\ total = 0
  /\ account = 1
  /\ account_hits = <<>>
  /\ calls = <<>>
  /\ last_outcome = "none"
  /\ html = NoHtml
  /\ files = [f \in FileNames |-> NoHtml]
  /\ effects = <<>>
  /\ briefing = <<>>
  /\ briefing_blocks = <<>>
  /\ clock = 0

NextDedup == Deduplicate

SpecDedup == InitDedup /\ [][NextDedup]_vars

\* the titles the news API answers with in SpecFetch
FetchTitles == {"Flood hits city", "Flood hits city again", "Unrelated story"}

\* main() after fetch_articles returned for the first industry, for every
\* answer of the news API of up to MaxNews titles
InitFetch ==
  /\ pc = "rss"
  /\ ARTICLES_TARGET = MaxTarget
  /\ industry = 1
  /\ feed = 1
  /\ candidates \in {Articles(ts, 0) : ts \in SeqsUpTo(FetchTitles, MaxNews)}
  /\ fetched = <<>>
  /\ good_articles = <<>>
  /\ article = 1
  /\ all_industry_articles = <<>>
  /\ total = 0
  /\ account = 1
  /\ account_hits = <<>>
  /\ calls = <<>>
  /\ last_outcome = "none"
  /\ html = NoHtml
  /\ files = [f \in FileNames |-> NoHtml]
  /\ effects = <<>>
  /\ briefing = <<>>
  /\ briefing_blocks = <<>>
  /\ clock = 0

\* the feeds of the industry are fetched and the candidates deduplicated
NextFetch ==
  \/ FetchFromRss
  \/ Deduplicate

SpecFetch == InitFetch /\ [][NextFetch]_vars

(***************************************************************************)
(* Properties of the deduplicator.                                         *)
(***************************************************************************)
Titles(as) == [i \in 1..Len(as) |-> as[i].title]

\* the overlap ratio of two candidates as the specification defines it:
\* |A \cap B| / max(|A|, |B|) compared with num/10; a pair of empty token
\* sets has no ratio and is a non-match
Common(a, b) == Cardinality(words_of(a) \cap words_of(b))
Larger(a, b) == Max(Cardinality(words_of(a)), Cardinality(words_of(b)))
RatioAtLeast(a, b, num) == Larger(a, b) > 0 /\ 10 * Common(a, b) >= num * Larger(a, b)
RatioBelow(a, b, num) == ~RatioAtLeast(a, b, num)

\* indices of the fetched candidates that deduplicate_articles retained
Kept == {i \in 1..Len(fetched) : fetched[i] \in Range(candidates)}

\* something was dropped and something was kept next to it
DedupActed ==
  /\ pc = "classify"
  /\ Len(candidates) >= 2
  /\ Len(candidates) < Len(fetched)

\* C1: every pair of distinct retained candidates has a title-token overlap
\* ratio strictly below 0.70.
C1_RetainedPairsBelowThreshold ==
  pc = "classify" =>
    \A i, j \in 1..Len(candidates) :
      i # j => RatioBelow(candidates[i], candidates[j], 7)

\* C1 witness: a candidate was dropped and two retained candidates overlap
\* by half of their tokens.
C1_Witness ==
  /\ DedupActed
  /\ \E i, j \in 1..Len(candidates) :
       i # j /\ RatioAtLeast(candidates[i], candidates[j], 5)

\* C2: deduplicating the output of the deduplicator returns the same
\* candidates in the same order.
C2_DedupIdempotent ==
  pc = "classify" => deduplicate_articles(candidates) = candidates

\* C2 witness: the first pass dropped a candidate and kept three apart.
C2_Witness ==
  /\ pc = "classify"
  /\ Len(fetched) = 3
  /\ Len(candidates) = 2
  /\ \E i \in 1..2 : words_of(candidates[i]) # {}

ExampleTitles ==
  <<"Flood hits city", "Flooding hits city again", "Unrelated story">>

\* C3 as amended: of the candidates titled "Flood hits city", "Flooding hits
\* city again", "Unrelated story" all three are kept: the first two share
\* 2 of 4 tokens, a ratio of 0.50.
C3_ExampleKeepsAllThree ==
  (pc = "classify" /\ Titles(fetched) = ExampleTitles) =>
    /\ candidates = fetched
    /\ Common(fetched[1], fetched[2]) = 2
    /\ Larger(fetched[1], fetched[2]) = 4

\* C3 as stated: the second candidate of the example is dropped as a
\* duplicate of the first with a ratio of at least 0.70.
C3_ExampleDropsSecond ==
  (pc = "classify" /\ Titles(fetched) = ExampleTitles) =>
    /\ Titles(candidates) = <<"Flood hits city", "Unrelated story">>
    /\ RatioAtLeast(fetched[1], fetched[2], 7)

\* C3 witness: the example list has been deduplicated.
C3_Witness == pc = "classify" /\ Titles(fetched) = ExampleTitles

\* C4: greedy first fit: a candidate is dropped iff an earlier retained
\* candidate has ratio >= 0.70 with it, the first candidate is retained, and
\* the output is the retained candidates in input order.
C4_GreedyFirstFit ==
  pc = "classify" =>
    /\ \A j \in 1..Len(fetched) :
         (j \notin Kept) <=>
           \E i \in Kept : i < j /\ RatioAtLeast(fetched[i], fetched[j], 7)
    /\ Len(fetched) > 0 => 1 \in Kept
    /\ candidates = SelectSeq(fetched, LAMBDA a : a \in Range(candidates))

\* C4 witness: a retained candidate follows a dropped one it has ratio
\* >= 0.70 with (the dropped one was not compared against).
C4_Witness ==
  /\ pc = "classify"
  /\ \E i, j \in 1..Len(fetched) :
       /\ i < j
       /\ i \notin Kept
       /\ j \in Kept
       /\ RatioAtLeast(fetched[i], fetched[j], 7)

\* the sequence s without its element at index i
RemoveAt(s, i) == SubSeq(s, 1, i - 1) \o SubSeq(s, i + 1, Len(s))

\* C5: a candidate with an empty token set is retained, and with it taken
\* out of the input the same other candidates are retained.
C5_EmptyTitleRetained ==
  pc = "classify" =>
    \A i \in 1..Len(fetched) :
      words_of(fetched[i]) = {} =>
        /\ i \in Kept
        /\ deduplicate_articles(RemoveAt(fetched, i))
             = SelectSeq(candidates, LAMBDA a : a # fetched[i])

\* C5 witness: two empty-title candidates were retained and a later
\* candidate was dropped as the duplicate of a titled one.
C5_Witness ==
  /\ pc = "classify"
  /\ \E i, j \in Kept :
       i < j /\ words_of(fetched[i]) = {} /\ words_of(fetched[j]) = {}
  /\ Len(candidates) < Len(fetched)

(***************************************************************************)
(* Properties of the classification loops and of the assembled digest.     *)
(***************************************************************************)
Urls(as) == [i \in 1..Len(as) |-> as[i].url]

\* the calls of evaluate_and_summarize made for industry n, in order
IndustryCalls(n) ==
  SelectSeq(calls, LAMBDA c : c.fn = "evaluate_and_summarize"
                              /\ c.scope = Industries[n].name)

\* the calls of evaluate_account_article made for account n, in order
AccountCalls(n) ==
  SelectSeq(calls, LAMBDA c : c.fn = "evaluate_account_article"
                              /\ c.scope = Accounts[n].name)

CallArticles(cs) == [i \in 1..Len(cs) |-> cs[i].article]
RelevantCalls(cs) == SelectSeq(cs, LAMBDA c : c.relevant)

\* C6: at every step of the classification loop and in every digest entry
\* the number of retained articles is at most articles_per_industry.
C6_RetainedAtMostTarget ==
  /\ Len(good_articles) <= ARTICLES_TARGET
  /\ \A k \in 1..Len(all_industry_articles) :
       Len(all_industry_articles[k].articles) <= ARTICLES_TARGET

\* C6 witness: the target is reached while candidates remain, after a
\* candidate was judged not relevant.
C6_Witness ==
  /\ pc = "classify"
  /\ ARTICLES_TARGET > 0
  /\ Len(good_articles) = ARTICLES_TARGET
  /\ article <= Len(candidates)
  /\ article - 1 > Len(good_articles)

\* C7: the candidates of an industry reach the classifier in deduplicated
\* order, each at most once, and none after the target count of relevant
\* verdicts.
C7_ClassifiedInOrderUntilTarget ==
  \A n \in 1..Len(Industries) :
    LET cs == IndustryCalls(n)
    IN /\ \A i, j \in 1..Len(cs) :
            i < j => cs[i].article.url < cs[j].article.url
       /\ \A k \in 1..Len(cs) :
            Len(RelevantCalls(SubSeq(cs, 1, k - 1))) < ARTICLES_TARGET
       /\ (n = industry /\ pc = "classify") =>
            CallArticles(cs) = SubSeq(candidates, 1, article - 1)

\* C7 witness: target 3, five candidates, the first three judged relevant
\* and kept, the loop over, candidates 4 and 5 not classified.
C7_Witness ==
  /\ pc = "classify"
  /\ ARTICLES_TARGET = 3
  /\ Len(candidates) = 5
  /\ Urls(good_articles) = Urls(SubSeq(candidates, 1, 3))
  /\ CallArticles(IndustryCalls(industry)) = SubSeq(candidates, 1, 3)
  /\ ~ENABLED Classify

\* the candidates a classifier with the given verdicts judges relevant
RelevantOf(cands, verdict) ==
  SelectSeq(cands, LAMBDA a :
    \E i \in 1..Len(cands) : cands[i] = a /\ verdict[i])

\* C8: the articles retained for an industry are the first min(t, r)
\* candidates judged relevant, in order: when the loop is over this holds
\* whatever the classifier would say of the candidates it was not asked
\* about, and a digest entry holds the articles judged relevant.
C8_FirstRelevantUpToTarget ==
  /\ (pc = "classify" /\ ~ENABLED Classify) =>
       \A rest \in [article..Len(candidates) -> BOOLEAN] :
         LET cs == IndustryCalls(industry)
             verdict == [i \in 1..Len(candidates) |->
                           IF i < article THEN cs[i].relevant ELSE rest[i]]
             rel == RelevantOf(candidates, verdict)
         IN Urls(good_articles)
              = Urls(SubSeq(rel, 1, Min(ARTICLES_TARGET, Len(rel))))
  /\ \A k \in 1..Len(all_industry_articles) :
       /\ Urls(all_industry_articles[k].articles)
            = Urls(CallArticles(RelevantCalls(IndustryCalls(k))))
       /\ Titles(all_industry_articles[k].articles)
            = Titles(CallArticles(RelevantCalls(IndustryCalls(k))))

\* C8 witness: the loop is over with two articles retained, not the first
\* two candidates, and a candidate left unclassified.
C8_Witness ==
  /\ pc = "classify"
  /\ ~ENABLED Classify
  /\ ARTICLES_TARGET = 2
  /\ Len(good_articles) = 2
  /\ article <= Len(candidates)
  /\ Urls(good_articles) # Urls(SubSeq(candidates, 1, 2))

AfterIndustries == pc \in {"accounts", "account_eval", "render"}

\* C9: the digest holds one entry per configured industry in configuration
\* order, complete once the industry loop is over, and the entry of an
\* industry without a relevant verdict has an empty article list.
C9_OneEntryPerIndustry ==
  /\ Len(all_industry_articles) <= Len(Industries)
  /\ \A k \in 1..Len(all_industry_articles) :
       /\ all_industry_articles[k].name = Industries[k].name
       /\ RelevantCalls(IndustryCalls(k)) = <<>> =>
            all_industry_articles[k].articles = <<>>
  /\ AfterIndustries => Len(all_industry_articles) = Len(Industries)

\* C9 witness: the digest is assembled, the first industry had candidates
\* and none relevant, the second had no candidate at all.
C9_Witness ==
  /\ pc = "render"
  /\ ARTICLES_TARGET > 0
  /\ IndustryCalls(1) # <<>>
  /\ all_industry_articles[1].articles = <<>>
  /\ IndustryCalls(2) = <<>>
  /\ all_industry_articles[2].articles = <<>>

\* the hits of account n
AccountHits(n) == SelectSeq(account_hits, LAMBDA h : h.account = Accounts[n])

\* C10: an account has at most one hit; its article is the first candidate
\* in fetch order judged relevant, and no candidate after it is evaluated.
C10_FirstRelevantAccountHit ==
  \A n \in 1..Len(Accounts) :
    LET cs == AccountCalls(n)
        hs == AccountHits(n)
    IN /\ Len(hs) <= 1
       /\ CallArticles(RelevantCalls(cs)) = [i \in 1..Len(hs) |-> hs[i].article]
       /\ \A k \in 1..Len(cs) : cs[k].relevant => k = Len(cs)
       /\ \/ pc = "account_eval" /\ n = account
          \/ pc \in {"accounts", "render"} /\ n = account - 1
          => CallArticles(cs) = SubSeq(candidates, 1, Len(cs))

\* C10 witness: an account's hit is its second candidate, the first was
\* judged not relevant and the third was not evaluated.
C10_Witness ==
  /\ pc = "render"
  /\ Len(candidates) = 3
  /\ Len(AccountCalls(2)) = 2
  /\ AccountHits(2) # <<>>
  /\ AccountHits(2)[1].article = candidates[2]
  /\ AccountHits(1) = <<>>

(***************************************************************************)
(* Properties of the error handling of the classifier calls.               *)
(***************************************************************************)
FailedOutcomes == {"no_json", "bad_json", "exception"}

\* C12: a classifier call that raises, whose reply has no '{' ... '}' or
\* whose extracted text does not parse counts as not relevant: nothing is
\* retained, the loop stays where it is and moves on to the next
\* candidate, which is classified if the loop has one.
C12_FailedCallIsNotRelevant ==
  /\ [](last_outcome \in FailedOutcomes =>
          /\ pc \in {"classify", "account_eval"}
          /\ (pc = "classify" /\ article <= Len(candidates))
               => ENABLED Classify
          /\ (pc = "account_eval" /\ article <= Len(candidates))
               => ENABLED EvaluateAccountArticle)
  /\ [][last_outcome' \in FailedOutcomes =>
          /\ calls' = Append(calls, calls'[Len(calls')])
          /\ ~calls'[Len(calls')].relevant
          /\ calls'[Len(calls')].article = candidates[article]
          /\ good_articles' = good_articles
          /\ account_hits' = account_hits
          /\ all_industry_articles' = all_industry_articles
          /\ pc' = pc
          /\ article' = article + 1]_vars

\* C12 witness: an industry call ended in unparseable JSON after an article
\* was retained, and a further candidate is waiting.
C12_Witness ==
  /\ pc = "classify"
  /\ last_outcome = "bad_json"
  /\ good_articles # <<>>
  /\ article <= Len(candidates)

(***************************************************************************)
(* Properties of the chat message.                                         *)
(***************************************************************************)
Breaks == {"\n", " "}

\* the boundary after the first k characters of text lies inside a word
InsideWord(text, k) ==
  /\ k >= 1
  /\ k < Len(text)
  /\ text[k] \notin Breaks
  /\ text[k + 1] \notin Breaks

LastBlock(blocks) == blocks[Len(blocks)].text

\* C11: every section block has at most MAX_BLOCK characters, and when a
\* block is cut off a text whose first MAX_BLOCK characters hold a newline
\* or space after the first character, the cut is not inside a word.
C11_BlocksBoundedAndCutAtBreaks ==
  [][Len(briefing_blocks') = Len(briefing_blocks) + 1 =>
       LET chunk  == LastBlock(briefing_blocks')
           window == slice(briefing, 0, MAX_BLOCK)
       IN /\ \A b \in 1..Len(briefing_blocks') :
               Len(briefing_blocks'[b].text) <= MAX_BLOCK
          /\ chunk = slice(briefing, 0, Len(chunk))
          /\ (/\ Len(briefing) > Len(chunk)
              /\ \E p \in 2..Len(window) : window[p] \in Breaks)
               => ~InsideWord(briefing, Len(chunk))]_vars

\* C11 witness: the text was split into a block cut short at a break and a
\* block of MAX_BLOCK word characters cut where no break was in reach.
C11_Witness ==
  /\ pc = "post_to_slack"
  /\ briefing # <<>>
  /\ \E b, c \in 1..Len(briefing_blocks) :
       /\ Len(briefing_blocks[b].text) < MAX_BLOCK
       /\ Len(briefing_blocks[c].text) = MAX_BLOCK
       /\ \A i \in 1..MAX_BLOCK : briefing_blocks[c].text[i] = "a"

(***************************************************************************)
(* C13: a failed git command ends the publish steps.                       *)
(***************************************************************************)
\* the operations the log of publish steps holds, in its order
Ops(log) == [i \in 1..Len(log) |-> log[i].op]

\* the git commands in the log that failed
FailedGit == {i \in 1..Len(effects) :
                effects[i].op \in Range(GitCommands) /\ ~effects[i].ok}

\* C13: once git add, git commit or git push has failed the run is over: the
\* failed command is the last publish step, there is no deployment poll, no
\* briefing and no post, no further step can be taken, and both HTML files
\* hold the rendered document
C13_GitFailureAbortsPublishing ==
  \A i \in FailedGit :
    /\ i = Len(effects)
    /\ pc = "returned"
    /\ ~ENABLED NextPublish
    /\ \A j \in 1..Len(effects) :
         effects[j].op \notin {"wait_for_deployment", "generate_slack_briefing", "post"}
    /\ briefing = <<>> /\ briefing_blocks = <<>>
    /\ html # NoHtml
    /\ \A f \in FileNames : files[f] = html

C13_Witness ==
  /\ pc = "returned"
  /\ Ops(effects) = <<"write", "write", "git add", "git commit">>
  /\ ~effects[4].ok
  /\ files["index.html"] = html /\ html.total > 0

(***************************************************************************)
(* C14: a deployment poll that times out changes nothing in what follows.  *)
(***************************************************************************)
\* the deployment polls in the log that timed out
TimedOut == {i \in 1..Len(effects) :
               effects[i].op = "wait_for_deployment" /\ ~effects[i].ok}

\* C14: whatever wait_for_deployment returns, main() goes on to the briefing
\* with nothing but the log changed; and after a poll that timed out the run
\* is at the briefing, the post or its end, with the briefing call and the
\* post possible whenever the run is at them
C14_PollTimeoutIsNotFatal ==
  /\ [][pc = "wait_for_deployment" =>
          /\ pc' = "generate_slack_briefing"
          /\ Len(effects') = Len(effects) + 1
          /\ SubSeq(effects', 1, Len(effects)) = effects
          /\ UNCHANGED <<all_industry_articles, account_hits, total, html,
                         files, briefing, briefing_blocks>>]_vars
  /\ [](TimedOut # {} =>
          /\ pc \in {"generate_slack_briefing", "post_to_slack", "done", "raised"}
          /\ pc = "generate_slack_briefing" => ENABLED GenerateSlackBriefing
          /\ (pc = "post_to_slack" /\ briefing # <<>>) => ENABLED SplitBriefing
          /\ (pc = "post_to_slack" /\ briefing = <<>>) => ENABLED PostToSlack)

C14_Witness ==
  /\ pc = "done"
  /\ TimedOut # {}
  /\ effects[Len(effects)].op = "post"
  /\ effects[Len(effects) - 1].op = "generate_slack_briefing"
  /\ effects[Len(effects) - 3].op = "git push" /\ effects[Len(effects) - 3].ok

(***************************************************************************)
(* C20: the order of the publish steps.                                    *)
(***************************************************************************)
\* the publish steps of a run that goes through
PublishOrder ==
  <<"write", "write", "git add", "git commit", "git push",
    "wait_for_deployment", "generate_slack_briefing", "post">>

IsPrefix(s, t) == Len(s) <= Len(t) /\ s = SubSeq(t, 1, Len(s))

\* C20: the publish steps taken so far are a prefix of: write the dated file,
\* write index.html, git add, git commit, git push, poll, briefing, post, so
\* each is taken at most once and in this order; the two files get the same
\* content; a post comes only after a push that succeeded; and after a post
\* that was not answered with 200 no further step is taken
C20_PublishStepsInOrderOnce ==
  /\ IsPrefix(Ops(effects), PublishOrder)
  /\ Len(effects) >= 1 => effects[1].file = "digest_DATE.html"
  /\ Len(effects) >= 2 =>
       /\ effects[2].file = "index.html"
       /\ files["digest_DATE.html"] = files["index.html"]
       /\ files["index.html"] = html /\ html # NoHtml
  /\ \A i \in 1..Len(effects) :
       effects[i].op = "post" =>
         /\ \E j \in 1..(i - 1) : effects[j].op = "git push" /\ effects[j].ok
         /\ ~effects[i].ok => (i = Len(effects) /\ ~ENABLED NextPublish)

C20_Witness ==
  /\ pc = "done"
  /\ Ops(effects) = PublishOrder
  /\ ~effects[Len(effects)].ok
  /\ Len(effects[Len(effects)].payload) > 5

(***************************************************************************)
(* C15: failures of the external calls and the end of the run.             *)
(***************************************************************************)
\* C15: no run ends with an error raised out of main(): a run that has a
\* rendered digest ends at its last prints, or returns after a failed git
\* command, whatever the briefing call and the webhook do
C15_NoExternalFailureRaises == pc # "raised"

(***************************************************************************)
(* C16: what a fetcher gives on an error.                                  *)
(***************************************************************************)
\* the ways a fetch from the news API fails
FetchErrors == {"bad_status", "network_failure"}

\* C16: a fetch of fetch_articles or fetch_account_news that ends in a bad
\* status or a network failure leaves main() with an empty candidate list
\* and at the next step of its loop (the feeds of the industry, the
\* candidates of the account)
C16_FetchErrorGivesEmptyList ==
  [][last_outcome' \in FetchErrors =>
       /\ candidates' = <<>>
       /\ pc' \in {"rss", "account_eval"}]_vars

(***************************************************************************)
(* C17: the sections and cards of the rendered document.                   *)
(***************************************************************************)
\* section sec of the document holds the placeholder card
HasPlaceholder(sec) ==
  \E c \in 1..Len(sec.cards) : sec.cards[c].class = "card empty-card"

\* C17: the rendered document has one section per entry of the digest, in
\* the digest's order; a section of an industry with articles has one card
\* per article, in the order of the articles; and a section holds the
\* placeholder card exactly when the industry has no article
C17_SectionsAndCardsInOrder ==
  html # NoHtml =>
    /\ Len(html.sections) = Len(all_industry_articles)
    /\ \A i \in 1..Len(html.sections) :
         LET sec  == html.sections[i]
             arts == all_industry_articles[i].articles
         IN /\ sec.name = all_industry_articles[i].name
            /\ HasPlaceholder(sec) <=> arts = <<>>
            /\ arts # <<>> =>
                 /\ Len(sec.cards) = Len(arts)
                 /\ \A j \in 1..Len(arts) :
                      /\ sec.cards[j].class = "card"
                      /\ sec.cards[j].headline = arts[j].title
                      /\ sec.cards[j].href = arts[j].url

C17_Witness ==
  /\ pc = "write_dated"
  /\ Len(html.sections) = Len(Industries)
  /\ \E i, k \in 1..Len(html.sections) :
       /\ HasPlaceholder(html.sections[i])
       /\ Len(html.sections[k].cards) >= 2
       /\ html.sections[k].cards[1].headline # html.sections[k].cards[2].headline

(***************************************************************************)
(* C18: the blocks of the chat payload.                                    *)
(***************************************************************************)
\* the posts in the log of publish steps
Posts == {i \in 1..Len(effects) : effects[i].op = "post"}

\* the blocks of a payload between its first block and its last three
SectionsOf(payload) == SubSeq(payload, 2, Len(payload) - 3)

\* a payload is a header, section blocks with text, a divider, the context
\* block with the totals of the run and the button to the published page
PayloadFrame(payload) ==
  /\ Len(payload) >= 4
  /\ payload[1].type = "header"
  /\ \A b \in 1..Len(SectionsOf(payload)) :
       /\ SectionsOf(payload)[b].type = "section"
       /\ SectionsOf(payload)[b].text # <<>>
  /\ payload[Len(payload) - 2].type = "divider"
  /\ payload[Len(payload) - 1] =
       [type |-> "context", total |-> total, industries |-> Len(Industries)]
  /\ payload[Len(payload)] = [type |-> "actions", url |-> "page_url"]

\* C18 as stated: every payload posted is a header, one or more section
\* blocks, a divider, the context block and the button, also for an empty
\* briefing
C18_PayloadAlwaysHasSection ==
  \A i \in Posts :
    /\ PayloadFrame(effects[i].payload)
    /\ Len(SectionsOf(effects[i].payload)) >= 1

\* C18 amended: every payload posted is a header, section blocks, a
\* divider, the context block and the button; it has one or more section
\* blocks when the briefing is not empty and none when the briefing is empty
C18_PayloadSectionsUnlessEmpty ==
  \A i \in Posts :
    /\ PayloadFrame(effects[i].payload)
    /\ effects[i - 1].op = "generate_slack_briefing"
    /\ Len(SectionsOf(effects[i].payload)) >= 1 <=> effects[i - 1].text # <<>>

C18_Witness ==
  /\ pc = "done"
  /\ \E i \in Posts :
       /\ effects[i - 1].text = <<>>
       /\ [b \in 1..Len(effects[i].payload) |-> effects[i].payload[b].type]
            = <<"header", "divider", "context", "actions">>

(***************************************************************************)
(* C19: the order of the candidates handed to the deduplicator.            *)
(***************************************************************************)
\* the source of a fetched article: 0 for the news API, f for the f-th feed
\* of the industry (its url is its position in the answer of its source)
SourceOf(a) == (a.url - 1) \div ARTICLES_FETCH

\* the list handed to deduplicate_articles is the answer of the news API in
\* its order, then the entries of the feeds in the order of the
\* configuration, each feed in its own order and with at most ARTICLES_FETCH
\* entries
HandedInFetchOrder ==
  /\ \A i, j \in 1..Len(fetched) : i < j => fetched[i].url < fetched[j].url
  /\ \A i \in 1..Len(fetched) :
       SourceOf(fetched[i]) \in 0..Len(Industries[1].rss_feeds)
  /\ \A f \in 1..Len(Industries[1].rss_feeds) :
       Cardinality({i \in 1..Len(fetched) : SourceOf(fetched[i]) = f})
         <= ARTICLES_FETCH

\* the pairs of a news API item and a feed item with near-duplicate titles
NearDuplicatePairs ==
  {p \in (1..Len(fetched)) \X (1..Len(fetched)) :
     /\ SourceOf(fetched[p[1]]) = 0
     /\ SourceOf(fetched[p[2]]) > 0
     /\ RatioAtLeast(fetched[p[1]], fetched[p[2]], 7)}

\* C19 as stated: the candidates are handed over in fetch order, and of a
\* news API item and a feed item that are near-duplicates the feed item is
\* never the one retained
C19_NewsItemOfNearDuplicatesRetained ==
  pc = "classify" =>
    /\ HandedInFetchOrder
    /\ \A p \in NearDuplicatePairs : p[2] \notin Kept

\* C19 amended: the candidates are handed over in fetch order, and of a news
\* API item and a feed item that are near-duplicates the feed item is
\* dropped whenever the news API item is retained
C19_FeedItemNeverReplacesRetainedNewsItem ==
  pc = "classify" =>
    /\ HandedInFetchOrder
    /\ \A p \in NearDuplicatePairs : p[1] \in Kept => p[2] \notin Kept

C19_Witness ==
  /\ pc = "classify"
  /\ Cardinality({i \in 1..Len(fetched) : SourceOf(fetched[i]) = 1}) = ARTICLES_FETCH
  /\ \E p \in NearDuplicatePairs :
       /\ p[1] \in Kept /\ p[2] \notin Kept
       /\ fetched[p[1]].title # fetched[p[2]].title

(***************************************************************************)
(* C21: what wait_for_deployment returns, and that it returns.             *)
(***************************************************************************)
\* the places of the polling loop
PollPlaces == {"poll_test", "poll_get", "poll_sleep"}

\* this step is the return of wait_for_deployment with the given value
PollReturns(value) ==
  effects' = Append(effects, [op |-> "wait_for_deployment", ok |-> value])

\* C21: wait_for_deployment returns True only in the step in which a poll
\* got status 200 and a body with today's date; it returns False only at a
\* test of the loop that finds the timeout elapsed, and no poll before got
\* such a page, since such a poll ends the loop at once; a RequestException
\* is swallowed: the loop goes to its sleep and on to its next test; and
\* with every statement taking its turn and the sleep advancing the clock,
\* the loop is left
C21_PollResultAndTermination ==
  /\ [][PollReturns(TRUE) => last_outcome' = "status_200_with_date"]_vars
  /\ [][PollReturns(FALSE) => (pc = "poll_test" /\ clock >= timeout)]_vars
  /\ [](last_outcome = "status_200_with_date" =>
          (pc \notin PollPlaces /\ effects[Len(effects)].ok))
  /\ [][last_outcome' = "request_exception" =>
          (pc' = "poll_sleep" /\ effects' = effects)]_vars
  /\ [](pc = "poll_sleep" => ENABLED PollSleep)
  /\ <>(pc \notin PollPlaces)

C21_Witness ==
  /\ pc = "generate_slack_briefing"
  /\ effects[Len(effects)] = [op |-> "wait_for_deployment", ok |-> FALSE]
  /\ clock > timeout

(***************************************************************************)
(* C22: the action of an account hit.                                      *)
(***************************************************************************)
\* account types, "None" for an account without a type
TypeSamples == {"None", "prospect", "Prospect", "client", "CLIENT", "partner"}

\* the types under which an account is a prospect
ProspectTypes == {"None", "prospect", "Prospect"}

GivenBriefing == effects[Len(PushedLog) + 2].text

RECURSIVE BlockText(_)
\* the texts of the blocks one after the other
BlockText(blocks) ==
  IF blocks = <<>> THEN <<>> ELSE Head(blocks).text \o BlockText(Tail(blocks))

\* the characters of a text that are not whitespace, in their order
Visible(text) == SelectSeq(text, LAMBDA c : ~isspace(c))

\* C23: every pass of the splitting loop takes a block of at least one
\* character off the front of the text and drops nothing after it but
\* whitespace; so the blocks in their order followed by the text left hold
\* the characters of the briefing that are not whitespace, each once and in
\* their order; and the loop ends with no text left
C23_SplitTerminatesAndKeepsText ==
  /\ [][Len(briefing_blocks') = Len(briefing_blocks) + 1 =>
          LET chunk == LastBlock(briefing_blocks')
              gap   == Len(briefing) - Len(chunk) - Len(briefing')
          IN /\ Len(chunk) >= 1
             /\ Len(briefing') < Len(briefing)
             /\ gap >= 0
             /\ briefing = chunk \o SubSeq(briefing, Len(chunk) + 1, Len(chunk) + gap)
                                 \o briefing'
             /\ \A k \in (Len(chunk) + 1)..(Len(chunk) + gap) : isspace(briefing[k])
             /\ SubSeq(briefing_blocks', 1, Len(briefing_blocks)) = briefing_blocks]_vars
  /\ [](Visible(BlockText(briefing_blocks) \o briefing) = Visible(GivenBriefing))
  /\ <>(briefing = <<>>)

C23_Witness ==
  /\ briefing = <<>>
  /\ Len(briefing_blocks) >= 2
  /\ Len(BlockText(briefing_blocks)) < Len(GivenBriefing)
  /\ isspace(GivenBriefing[1])
  /\ pc = "done"

(***************************************************************************)
(* C24: industries are processed independently and the total adds up.      *)
(***************************************************************************)
RECURSIVE CountArticles(_)
\* the retained articles of all entries of a digest, counted
CountArticles(digest) ==
  IF digest = <<>> THEN 0
  ELSE Len(digest[1].articles) + CountArticles(Tail(digest))

\* C24: for each industry the deduplicator starts with nothing seen: a
\* fetched candidate is dropped exactly for an earlier kept candidate of the
\* same list, whatever earlier industries retained; the list of retained
\* articles starts empty and the classification goes on until the target
\* is reached for this industry alone; and the running total is the sum of
\* the retained articles over the digest, which is the total of the
\* rendered document and of every payload posted
C24_IndustriesIndependentTotalAddsUp ==
  /\ [](pc = "classify" =>
          /\ \A j \in 1..Len(fetched) :
               (j \notin Kept) <=>
                 \E i \in Kept : i < j /\ RatioAtLeast(fetched[i], fetched[j], 7)
          /\ (article <= Len(candidates) /\ Len(good_articles) < ARTICLES_TARGET)
               => ENABLED Classify)
  /\ [][(pc = "rss" /\ pc' = "classify") => good_articles' = <<>>]_vars
  /\ [](total = CountArticles(all_industry_articles))
  /\ [](html # NoHtml => html.total = CountArticles(all_industry_articles))
  /\ [](\A i \in Posts :
          effects[i].payload[Len(effects[i].payload) - 1].total
            = CountArticles(all_industry_articles))

C24_Witness ==
  /\ pc = "write_dated"
  /\ ARTICLES_TARGET = 2
  /\ Len(all_industry_articles[1].articles) = 2
  /\ Len(all_industry_articles[2].articles) = 2
  /\ all_industry_articles[1].articles[1].title = "Flood hits city"
  /\ all_industry_articles[2].articles[1].title = "Flood hits city"
  /\ html.total = 4
  /\ total = 4

====
